---- MODULE Spec2Model ----
(***************************************************************************)
(* Calendar bucketing and week/month rollups of the WakaTime logger.       *)
(*                                                                         *)
(* Dates are records [year, month, day] as datetime.date; date arithmetic  *)
(* goes through the proleptic Gregorian ordinal, as datetime does.  The    *)
(* record store is the file tree under base_dir: a function from paths     *)
(* (sequences of path components) to the JSON value held by the file.      *)
(***************************************************************************)
EXTENDS Integers, Sequences, FiniteSets, TLC

VARIABLES
    today,          \* the clock reading of the current run (datetime.today().date())
    target_date,    \* the date the run processes
    op,             \* the operation the last step ran
    result,         \* how it ended: a return value kind or the exception raised
    month_rollup,   \* whether the run went into the month rollup
    files,          \* the record store: path -> content
    changed,        \* the paths whose content the last run changed
    steps,          \* number of runs so far
    week_num,       \* calendar probe: get_week_number(target_date)
    folders,        \* calendar probe: get_folder_path(target_date) of each component
    week_dates,     \* calendar probe: get_week_dates(target_date)
    summary,        \* rollup probe: the summary dict a generate_* call returned
    processed,      \* the dates fetch_and_save_with_structure was called with
    probe_input     \* function probe: the argument the probed call was given

vars == <<today, target_date, op, result, month_rollup, files, changed, steps,
          week_num, folders, week_dates, summary, processed, probe_input>>

-----------------------------------------------------------------------------
(* Bounds *)

\* last year of the dates the calendar functions are probed on (from 2024)
MaxYear == 2025
\* runs of the fetcher / importer in one behaviour
MaxSteps == 2
\* days from the clock reading of a run to that of the next
MaxSpanDays == 14

\* calls of the orchestrator with a date in one behaviour
MaxRuns == 4

\* items the API lists for one kind on one day
MaxItems == 2

\* create_pie_chart(self, items, title, max_items=8)
max_items == 8

\* days the API is asked for in the fetch probe
MaxFetchDays == 14
MaxClockDays == 16

\* days of the probed window that can have a daily record
MaxAggDays == 4

\* week folders of the probed month that can hold a week summary
MaxAggWeeks == 3

-----------------------------------------------------------------------------
(* datetime.date *)

None == "None"

\* no date yet
NoDate == [year |-> 0, month |-> 0, day |-> 0]

\* no folder paths computed yet
NoFolders == [fetcher |-> <<>>, visualizer |-> <<>>, summaries |-> <<>>, importer |-> <<>>]

IsLeap(y) == (y % 4 = 0) /\ ((y % 100 # 0) \/ (y % 400 = 0))

DaysInMonth(y, m) ==
    IF m = 2 THEN (IF IsLeap(y) THEN 29 ELSE 28)
    ELSE IF m \in {4, 6, 9, 11} THEN 30 ELSE 31

RECURSIVE DaysBeforeMonth(_, _)
DaysBeforeMonth(y, m) ==
    IF m <= 1 THEN 0 ELSE DaysBeforeMonth(y, m - 1) + DaysInMonth(y, m - 1)

DaysBeforeYear(y) ==
    ((y - 1) * 365) + ((y - 1) \div 4) - ((y - 1) \div 100) + ((y - 1) \div 400)

Date(y, m, d) == [year |-> y, month |-> m, day |-> d]

toordinal(d) == DaysBeforeYear(d.year) + DaysBeforeMonth(d.year, d.month) + d.day

\* years the ordinal arithmetic may land in: one around the probed years
TableYears == 2023 .. (MaxYear + 1)

fromordinal(n) ==
    LET y == CHOOSE yy \in TableYears :
                 DaysBeforeYear(yy) < n /\ n <= DaysBeforeYear(yy + 1)
        r == n - DaysBeforeYear(y)
        m == CHOOSE mm \in 1..12 :
                 DaysBeforeMonth(y, mm) < r
                 /\ r <= DaysBeforeMonth(y, mm) + DaysInMonth(y, mm)
    IN  Date(y, m, r - DaysBeforeMonth(y, m))

\* date + timedelta(days=n)
AddDays(d, n) == fromordinal(toordinal(d) + n)

\* (a - b).days
DaysBetween(a, b) == toordinal(a) - toordinal(b)

\* date.weekday(): Monday is 0, Sunday is 6
weekday(d) == (toordinal(d) + 6) % 7

\* a < b on dates: (year, month, day) compared in order
DateLT(a, b) ==
    \/ a.year < b.year
    \/ a.year = b.year /\ a.month < b.month
    \/ a.year = b.year /\ a.month = b.month /\ a.day < b.day

DateLE(a, b) == a = b \/ DateLT(a, b)

pad2(n) == IF n < 10 THEN "0" \o ToString(n) ELSE ToString(n)

\* date.strftime("%Y-%m-%d")
strftime_ymd(d) == ToString(d.year) \o "-" \o pad2(d.month) \o "-" \o pad2(d.day)

\* calendar.month_name: index 0 is the empty string
month_name ==
    [i \in 0..12 |->
        IF i = 0 THEN ""
        ELSE <<"January", "February", "March", "April", "May", "June", "July",
               "August", "September", "October", "November", "December">>[i]]

\* date.strftime("%B")
strftime_B(d) ==
    CASE d.month = 1 -> "January"   [] d.month = 2 -> "February"
      [] d.month = 3 -> "March"     [] d.month = 4 -> "April"
      [] d.month = 5 -> "May"       [] d.month = 6 -> "June"
      [] d.month = 7 -> "July"      [] d.month = 8 -> "August"
      [] d.month = 9 -> "September" [] d.month = 10 -> "October"
      [] d.month = 11 -> "November" [] d.month = 12 -> "December"

\* every date of the probed years
CalDates ==
    { dd \in { Date(y, m, d) : y \in 2024..MaxYear, m \in 1..12, d \in 1..31 } :
        dd.day <= DaysInMonth(dd.year, dd.month) }

-----------------------------------------------------------------------------
(* Calendar Bucketer: wakatime_fetcher.py *)

\* TrustlessWakaTimeLogger.__init__(base_dir="wakatime_logs")
base_dir == "wakatime_logs"

\* the week_diff + 2 slip: the first full week numbered after the stub
get_week_number_Shifted(d) ==
    LET first_day == [d EXCEPT !.day = 1]
        first_monday == AddDays(first_day, (7 - weekday(first_day)) % 7)
    IN  IF DateLT(d, first_monday) THEN 1
        ELSE (DaysBetween(d, first_monday) \div 7) + 2

\* the % 7 dropped from the offset to the first Monday
get_week_number_NoMod(d) ==
    LET first_day == [d EXCEPT !.day = 1]
        first_monday == AddDays(first_day, 7 - weekday(first_day))
    IN  IF DateLT(d, first_monday) THEN 1
        ELSE (DaysBetween(d, first_monday) \div 7) + 1

get_week_number(d) ==
    LET first_day == [d EXCEPT !.day = 1]
        first_monday == AddDays(first_day, (7 - weekday(first_day)) % 7)
    IN  IF DateLT(d, first_monday) THEN 1
        ELSE (DaysBetween(d, first_monday) \div 7) + 1

get_week_folder_name(d) == "week_" \o ToString(get_week_number(d))

get_month_folder_name(d) == pad2(d.month) \o "_" \o month_name[d.month]

get_folder_path(d) ==
    <<base_dir, ToString(d.year), get_month_folder_name(d), get_week_folder_name(d)>>

(* Calendar Bucketer: wakatime_visualizer.py *)

\* week_num taken from the day of the month alone
Visualizer_get_folder_path_ByDay(d) ==
    <<base_dir, ToString(d.year), pad2(d.month) \o "_" \o strftime_B(d),
      "week_" \o ToString(((d.day - 1) \div 7) + 1)>>

Visualizer_get_folder_path(d) ==
    LET month_folder == pad2(d.month) \o "_" \o strftime_B(d)
        first_day == [d EXCEPT !.day = 1]
        first_monday == AddDays(first_day, (7 - weekday(first_day)) % 7)
        wn == IF DateLT(d, first_monday) THEN 1
              ELSE (DaysBetween(d, first_monday) \div 7) + 1
    IN  <<base_dir, ToString(d.year), month_folder, "week_" \o ToString(wn)>>

(* Calendar Bucketer: create_summaries.py *)

Summaries_get_folder_path(d) ==
    LET first_day == [d EXCEPT !.day = 1]
        first_monday == AddDays(first_day, (7 - weekday(first_day)) % 7)
        wn == IF DateLT(d, first_monday) THEN 1
              ELSE (DaysBetween(d, first_monday) \div 7) + 1
        week_folder == "week_" \o ToString(wn)
        month_folder == pad2(d.month) \o "_" \o month_name[d.month]
    IN  <<"wakatime_logs", ToString(d.year), month_folder, week_folder>>

(* Calendar Bucketer: wakatime_import.py *)

Importer_get_week_number(d) ==
    LET first_day == [d EXCEPT !.day = 1]
        first_monday == AddDays(first_day, (7 - weekday(first_day)) % 7)
    IN  IF DateLT(d, first_monday) THEN 1
        ELSE (DaysBetween(d, first_monday) \div 7) + 1

Importer_get_month_folder_name(d) == pad2(d.month) \o "_" \o month_name[d.month]

Importer_get_folder_path(d) ==
    <<base_dir, ToString(d.year), Importer_get_month_folder_name(d),
      "week_" \o ToString(Importer_get_week_number(d))>>

(* Boundary Detector *)

\* the Monday taken one day too early
get_week_dates_OffByOne(d) ==
    LET monday == AddDays(d, 0 - (weekday(d) + 1))
    IN  [i \in 1..7 |-> AddDays(monday, i - 1)]

get_week_dates(d) ==
    LET days_since_monday == weekday(d)
        monday == AddDays(d, 0 - days_since_monday)
    IN  [i \in 1..7 |-> AddDays(monday, i - 1)]

-----------------------------------------------------------------------------
(* The record store: files under base_dir *)

\* the file at path p exists
Exists(fs, p) == p \in DOMAIN fs

\* open(p, "w") ... json.dump(v): create or overwrite
WriteFile(fs, p, v) == [q \in (DOMAIN fs) \cup {p} |-> IF q = p THEN v ELSE fs[q]]

\* a directory exists once mkdir(parents=True) made it for a file below it
DirExists(fs, dir) ==
    \E p \in DOMAIN fs : Len(p) > Len(dir) /\ SubSeq(p, 1, Len(dir)) = dir

\* dict.get(key, default)
Get(rec, key, default) == IF key \in DOMAIN rec THEN rec[key] ELSE default

\* a / b on numbers, kept exact as a reduced fraction
RECURSIVE Gcd(_, _)
Gcd(a, b) == IF b = 0 THEN a ELSE Gcd(b, a % b)

TrueDiv(a, b) ==
    LET g == IF a = 0 THEN b ELSE Gcd(a, b)
    IN  [num |-> a \div g, den |-> b \div g]

Zero == [num |-> 0, den |-> 1]

-----------------------------------------------------------------------------
(* The upstream API *)

\* a response with a status other than 200
ApiError == [status_code |-> 500, data |-> <<>>]

\* a 200 response whose "data" list is empty
Empty200 == [status_code |-> 200, data |-> <<>>]

\* a 200 response with one day's summary
Ok200(s) == [status_code |-> 200,
             data |-> << [grand_total |-> [total_seconds |-> s]] >>]

\* the answers the API can give for the day a run processes
Responses == { ApiError, Empty200, Ok200(3600), Ok200(7200) }

\* the answers it can give for the earlier days of that day's week
EarlierResponses == { ApiError, Ok200(3600) }

\* the API's answers to one run: r for the day processed, e for the others
Answers(d, r, e) ==
    LET dates == get_week_dates(d)
    IN  [x \in { dates[i] : i \in 1..7 } |-> IF x = d THEN r ELSE e]

\* requests.get(url) for the day d
Request(up, d) == up[d]

-----------------------------------------------------------------------------
(* wakatime_fetcher.py: TrustlessWakaTimeLogger *)

\* the outcome of a call: what it returned or raised, and the store after it
Outcome(st, v, fs) == [status |-> st, value |-> v, files |-> fs, month_rollup |-> FALSE]

\* the same outcome, of a run that went into the month rollup
WithMonth(o) == [o EXCEPT !.month_rollup = TRUE]

\* d[k] for every k of keys succeeds; a missing key raises KeyError (lenient
\* variant: as if every read were d.get(k, 0))
HasKeys_Lenient(d, keys) == keys \subseteq keys \cup DOMAIN d

\* d[k] for every k of keys succeeds; a missing key raises KeyError
HasKeys(d, keys) == keys \subseteq DOMAIN d

\* the JSON value written for a dict: the dict without the model's status tag
Json(data) == [k \in (DOMAIN data) \ {"status"} |-> data[k]]

fetch_daily_data(up, d) ==
    LET response == Request(up, d)
    IN  IF response.status_code # 200 THEN [status |-> None]
        ELSE [status |-> "data",
              wakatime_data |-> [data |-> response.data],
              metadata |-> [version |-> "2.0",
                            date_fetched |-> strftime_ymd(d),
                            script_name |-> "TrustlessWakaTimeLogger"]]

\* the path save_daily_data writes
daily_file(d) == Append(get_folder_path(d), strftime_ymd(d) \o ".json")

save_daily_data(fs, d, data) == WriteFile(fs, daily_file(d), Json(data))

\* one turn of the while loop, given the fetch of current_date and the turns after it
FetchedDay(daily_data, current_date, rest) ==
    [files |-> rest.files,
     fetched_files |-> IF daily_data.status # None
                       THEN <<daily_file(current_date)>> \o rest.fetched_files
                       ELSE rest.fetched_files]

\* the store after one turn of the while loop
SavedDay(fs, daily_data, current_date) ==
    IF daily_data.status # None THEN save_daily_data(fs, current_date, daily_data) ELSE fs

\* the days current_date .. end_date, fetched and saved in order
RECURSIVE fetch_multiple_days(_, _, _, _)
fetch_multiple_days(up, fs, current_date, end_date) ==
    IF ~DateLE(current_date, end_date) THEN [files |-> fs, fetched_files |-> <<>>]
    ELSE FetchedDay(fetch_daily_data(up, current_date), current_date,
                    fetch_multiple_days(up,
                                        SavedDay(fs, fetch_daily_data(up, current_date),
                                                 current_date),
                                        AddDays(current_date, 1), end_date))

calculate_total_seconds(items) ==
    IF Len(items) = 0 THEN 0
    ELSE LET S[i \in 0..Len(items)] ==
                 IF i = 0 THEN 0 ELSE S[i - 1] + Get(items[i], "total_seconds", 0)
         IN  S[Len(items)]

\* the sum that leaves the first element out
SumOf_SkipsFirst(seq, f) ==
    LET S[i \in 0..Len(seq)] == IF i <= 1 THEN 0 ELSE S[i - 1] + Get(seq[i], f, 0)
    IN  S[Len(seq)]

\* sum(x[f] for x in seq)
SumOf(seq, f) ==
    LET S[i \in 0..Len(seq)] == IF i = 0 THEN 0 ELSE S[i - 1] + Get(seq[i], f, 0)
    IN  S[Len(seq)]

\* the day summary extracted from a daily file
ExtractDaily(day_date, day_data) ==
    LET wakatime_data == day_data.wakatime_data.data[1]
    IN  [date |-> strftime_ymd(day_date),
         total_coding_time |-> calculate_total_seconds(<<wakatime_data.grand_total>>),
         categories |-> Get(wakatime_data, "categories", <<>>),
         languages |-> Get(wakatime_data, "languages", <<>>),
         projects |-> Get(wakatime_data, "projects", <<>>),
         editors |-> Get(wakatime_data, "editors", <<>>),
         machines |-> Get(wakatime_data, "machines", <<>>),
         operating_systems |-> Get(wakatime_data, "operating_systems", <<>>)]

\* what reading a daily file into a day summary raises, if anything
ExtractRaises(day_data) ==
    IF Len(day_data.wakatime_data.data) = 0 THEN "IndexError"
    ELSE IF ~HasKeys(day_data.wakatime_data.data[1], {"grand_total"}) THEN "KeyError"
    ELSE None

\* the day files of the dates that exist under folder, in the order of dates
DayFilesIn(fs, folder, dates) ==
    SelectSeq([i \in 1..Len(dates) |->
                  [date |-> dates[i],
                   path |-> Append(folder, strftime_ymd(dates[i]) \o ".json")]],
              LAMBDA x : Exists(fs, x.path))

\* what the loop over the day files found raises first, if anything
FirstRaise(fs, found) ==
    LET raised == SelectSeq(found, LAMBDA x : ExtractRaises(fs[x.path]) # None)
    IN  IF Len(raised) = 0 THEN None ELSE ExtractRaises(fs[raised[1].path])

\* the daily_summaries list the loop builds
DailySummaries(fs, found) ==
    [i \in 1..Len(found) |-> ExtractDaily(found[i].date, fs[found[i].path])]

\* the average taken over one member more than there are
Average_OneMore(total, n) == IF n > 0 THEN TrueDiv(total, n + 1) ELSE Zero

\* total / n if n > 0 else 0
Average(total, n) == IF n > 0 THEN TrueDiv(total, n) ELSE Zero

\* the week_summary_data dict with every date of the window counted as a day
\* with data
WeekSummaryData_CountsWindow(dates, daily_summaries) ==
    [status |-> "data",
     week_dates |-> [i \in 1..Len(dates) |-> strftime_ymd(dates[i])],
     total_coding_time |-> SumOf(daily_summaries, "total_coding_time"),
     daily_avg_coding_time |->
         Average(SumOf(daily_summaries, "total_coding_time"), Len(dates)),
     daily_summaries |-> daily_summaries,
     metadata |-> [days_with_data |-> Len(dates),
                   total_days |-> Len(dates)]]

\* the week_summary_data dict
WeekSummaryData(dates, daily_summaries) ==
    [status |-> "data",
     week_dates |-> [i \in 1..Len(dates) |-> strftime_ymd(dates[i])],
     total_coding_time |-> SumOf(daily_summaries, "total_coding_time"),
     daily_avg_coding_time |->
         Average(SumOf(daily_summaries, "total_coding_time"), Len(daily_summaries)),
     daily_summaries |-> daily_summaries,
     metadata |-> [days_with_data |-> Len(daily_summaries),
                   total_days |-> Len(dates)]]

\* the loop over the window, then the summary of what it found, also when it
\* found nothing
WeekSummaryOf_ZeroRecord(fs, dates, found) ==
    IF FirstRaise(fs, found) # None THEN [status |-> FirstRaise(fs, found)]
    ELSE WeekSummaryData(dates, DailySummaries(fs, found))

\* the loop over the window, then the summary of what it found
WeekSummaryOf(fs, dates, found) ==
    IF FirstRaise(fs, found) # None THEN [status |-> FirstRaise(fs, found)]
    ELSE IF Len(found) = 0 THEN [status |-> None]
    ELSE WeekSummaryData(dates, DailySummaries(fs, found))

\* the week summary with its total added to the total of the summary already
\* stored for the week folder
generate_week_summary_Merging(fs, week_folder_path, dates) ==
    IF Exists(fs, Append(week_folder_path, week_folder_path[Len(week_folder_path)] \o ".json"))
       /\ WeekSummaryOf(fs, dates, DayFilesIn(fs, week_folder_path, dates)).status = "data"
    THEN [WeekSummaryOf(fs, dates, DayFilesIn(fs, week_folder_path, dates))
             EXCEPT !.total_coding_time =
                 @ + Get(fs[Append(week_folder_path,
                                   week_folder_path[Len(week_folder_path)] \o ".json")],
                         "total_coding_time", 0)]
    ELSE WeekSummaryOf(fs, dates, DayFilesIn(fs, week_folder_path, dates))

generate_week_summary(fs, week_folder_path, dates) ==
    WeekSummaryOf(fs, dates, DayFilesIn(fs, week_folder_path, dates))

\* the fields save_week_summary formats into the markdown report
WeekReportFields ==
    { "week_dates", "total_coding_time", "daily_avg_coding_time",
      "total_categories_time", "total_language_time", "total_project_time",
      "total_editor_time", "total_machine_time", "total_os_time",
      "daily_summaries", "metadata" }

Last(seq) == seq[Len(seq)]

\* folder / f"{folder.name}{suffix}"
NamedIn(folder, suffix) == Append(folder, Last(folder) \o suffix)

save_week_summary(fs, week_folder_path, week_summary_data) ==
    IF ~HasKeys(week_summary_data, WeekReportFields)
    THEN Outcome("KeyError", <<>>,
                 WriteFile(fs, NamedIn(week_folder_path, ".json"), Json(week_summary_data)))
    ELSE Outcome("saved", NamedIn(week_folder_path, "_summary.md"),
                 WriteFile(WriteFile(fs, NamedIn(week_folder_path, ".json"),
                                     Json(week_summary_data)),
                           NamedIn(week_folder_path, "_summary.md"),
                           [markdown |-> "Week Summary",
                            week_dates |-> week_summary_data.week_dates]))

\* the fields generate_month_summary reads from a week summary file
WeekFieldsReadByMonth ==
    { "week_dates", "total_coding_time", "daily_avg_coding_time",
      "total_categories_time", "total_language_time", "total_project_time",
      "total_editor_time", "total_machine_time", "total_os_time", "metadata" }

\* the names a week folder can have, in sorted order
WeekFolderNames == [n \in 1..5 |-> "week_" \o ToString(n)]

\* the week folders of a month folder, sorted
WeekFoldersIn(fs, month_folder_path) ==
    SelectSeq([n \in 1..5 |-> Append(month_folder_path, WeekFolderNames[n])],
              LAMBDA f : DirExists(fs, f))

\* the week folders whose week JSON file exists
LoadedWeeks(fs, week_folders) ==
    SelectSeq(week_folders, LAMBDA f : Exists(fs, NamedIn(f, ".json")))

\* the weekly_summary dict extracted from one week JSON file
ExtractWeekly(name, week_data) ==
    [week |-> name,
     week_dates |-> Get(week_data, "week_dates", <<>>),
     total_coding_time |-> Get(week_data, "total_coding_time", 0),
     daily_avg_coding_time |-> Get(week_data, "daily_avg_coding_time", Zero),
     total_categories_time |-> Get(week_data, "total_categories_time", 0),
     total_language_time |-> Get(week_data, "total_language_time", 0),
     total_project_time |-> Get(week_data, "total_project_time", 0),
     total_editor_time |-> Get(week_data, "total_editor_time", 0),
     total_machine_time |-> Get(week_data, "total_machine_time", 0),
     total_os_time |-> Get(week_data, "total_os_time", 0),
     days_with_data |-> Get(Get(week_data, "metadata", <<>>), "days_with_data", 0)]

\* the month_summary_data dict
MonthSummaryData(month_folder_path, month_dates, weekly_summaries) ==
    [status |-> "data",
     month |-> Last(month_folder_path),
     year |-> month_folder_path[Len(month_folder_path) - 1],
     total_coding_time |-> SumOf(weekly_summaries, "total_coding_time"),
     weekly_avg_coding_time |->
         Average(SumOf(weekly_summaries, "total_coding_time"), Len(weekly_summaries)),
     daily_avg_coding_time |->
         Average(SumOf(weekly_summaries, "total_coding_time"),
                 SumOf(weekly_summaries, "days_with_data")),
     total_categories_time |-> SumOf(weekly_summaries, "total_categories_time"),
     total_language_time |-> SumOf(weekly_summaries, "total_language_time"),
     total_project_time |-> SumOf(weekly_summaries, "total_project_time"),
     total_editor_time |-> SumOf(weekly_summaries, "total_editor_time"),
     total_machine_time |-> SumOf(weekly_summaries, "total_machine_time"),
     total_os_time |-> SumOf(weekly_summaries, "total_os_time"),
     weekly_summaries |-> weekly_summaries,
     metadata |-> [total_weeks |-> Len(weekly_summaries),
                   total_days_with_data |-> SumOf(weekly_summaries, "days_with_data"),
                   total_days_in_month |-> Len(month_dates)]]

\* the loop over the week JSON files loaded, then the summary of them
MonthSummaryOf(fs, month_folder_path, month_dates, loaded) ==
    IF \E i \in 1..Len(loaded) :
           ~HasKeys(fs[NamedIn(loaded[i], ".json")], WeekFieldsReadByMonth)
    THEN [status |-> "KeyError"]
    ELSE IF Len(loaded) = 0 THEN [status |-> None]
    ELSE MonthSummaryData(month_folder_path, month_dates,
             [i \in 1..Len(loaded) |->
                 ExtractWeekly(Last(loaded[i]), fs[NamedIn(loaded[i], ".json")])])

generate_month_summary(fs, month_folder_path, month_dates) ==
    MonthSummaryOf(fs, month_folder_path, month_dates,
                   LoadedWeeks(fs, WeekFoldersIn(fs, month_folder_path)))

save_month_summary(fs, month_folder_path, month_summary_data) ==
    Outcome("saved", NamedIn(month_folder_path, "_summary.md"),
            WriteFile(WriteFile(fs, NamedIn(month_folder_path, ".json"),
                                Json(month_summary_data)),
                      NamedIn(month_folder_path, "_summary.md"),
                      [markdown |-> "Month Summary",
                       month |-> month_summary_data.month]))

\* the dates first_day .. last_day
DatesFrom(first_day, last_day) ==
    [i \in 1..(DaysBetween(last_day, first_day) + 1) |-> AddDays(first_day, i - 1)]

get_month_dates(d) ==
    DatesFrom([d EXCEPT !.day = 1],
              IF d.month = 12
              THEN AddDays([year |-> d.year + 1, month |-> 1, day |-> 1], -1)
              ELSE AddDays([d EXCEPT !.month = d.month + 1, !.day = 1], -1))

\* target_date.weekday() == 6 taken one day early
IsSunday_Saturday(d) == weekday(d) = 5

\* target_date.weekday() == 6
IsSunday(d) == weekday(d) = 6

\* last_day_of_month - timedelta(days=last_day_of_month.weekday() + 1)
SundayBefore(last_day_of_month) ==
    AddDays(last_day_of_month, 0 - (weekday(last_day_of_month) + 1))

\* (first_of_month + timedelta(days=32)).replace(day=1) - timedelta(days=1)
LastDayOfMonth(first_of_month) ==
    AddDays([AddDays(first_of_month, 32) EXCEPT !.day = 1], -1)

\* the date the run compares target_date with before the month rollup
last_sunday_of_month(d) == SundayBefore(LastDayOfMonth([d EXCEPT !.day = 1]))

\* the month summary saved if there is one
SaveMonth(fs, month_folder_path, month_summary_data) ==
    IF month_summary_data.status = "KeyError" THEN Outcome("KeyError", <<>>, fs)
    ELSE IF month_summary_data.status = None THEN Outcome("no_month_data", <<>>, fs)
    ELSE save_month_summary(fs, month_folder_path, month_summary_data)

\* the month rollup of the Sunday branch
MonthRollup(fs, month_folder_path, d) ==
    WithMonth(SaveMonth(fs, month_folder_path,
                        generate_month_summary(fs, month_folder_path,
                                               get_month_dates(d))))

\* the Sunday branch after the week summary was saved (or there was none)
AfterWeekSaved(fetched_files, saved, d) ==
    IF saved.status = "KeyError" THEN saved
    ELSE IF d = last_sunday_of_month(d)
         THEN [MonthRollup(saved.files, SubSeq(get_folder_path(d), 1, 3), d)
                   EXCEPT !.status = IF @ = "KeyError" THEN @ ELSE "file",
                          !.value = IF @ = "KeyError" THEN <<>> ELSE Last(fetched_files)]
    ELSE Outcome("file", Last(fetched_files), saved.files)

\* the Sunday branch after generate_week_summary
AfterWeekSummary(fetched, week_folder_path, week_summary_data, d) ==
    IF week_summary_data.status \in {"IndexError", "KeyError"}
    THEN Outcome(week_summary_data.status, <<>>, fetched.files)
    ELSE AfterWeekSaved(fetched.fetched_files,
                        IF week_summary_data.status = "data"
                        THEN save_week_summary(fetched.files, week_folder_path,
                                               week_summary_data)
                        ELSE Outcome("no_week_data", <<>>, fetched.files),
                        d)

\* the Sunday branch after the seven days were fetched
AfterWeekFetched(fetched, week_dates_, d) ==
    IF Len(fetched.fetched_files) = 0 THEN Outcome(None, <<>>, fetched.files)
    ELSE AfterWeekSummary(fetched, get_folder_path(d),
                          generate_week_summary(fetched.files, get_folder_path(d),
                                                week_dates_),
                          d)

\* the regular daily fetch
DailyFetch(fs, daily_data, d) ==
    IF daily_data.status = None THEN Outcome(None, <<>>, fs)
    ELSE Outcome("file", daily_file(d), save_daily_data(fs, d, daily_data))

fetch_and_save_with_structure(up, fs, d) ==
    IF IsSunday(d)
    THEN AfterWeekFetched(fetch_multiple_days(up, fs, get_week_dates(d)[1],
                                              get_week_dates(d)[7]),
                          get_week_dates(d), d)
    ELSE DailyFetch(fs, fetch_daily_data(up, d), d)

-----------------------------------------------------------------------------
(* wakatime_import.py: WakaTimeImporter *)

\* the importer's week summary, built also when the window has no day file
Importer_generate_week_summary_ZeroFilled(fs, week_folder_path, dates) ==
    WeekSummaryOf_ZeroRecord(fs, dates, DayFilesIn(fs, week_folder_path, dates))

Importer_generate_week_summary(fs, week_folder_path, dates) ==
    WeekSummaryOf(fs, dates, DayFilesIn(fs, week_folder_path, dates))

\* datetime.strptime(date_str, "%Y-%m-%d").date()
strptime_ymd(date_str) == CHOOSE d \in CalDates : strftime_ymd(d) = date_str

\* the daily report, written in the bucket of the date that date_str parses to
Importer_save_daily_summary(fs, date_str) ==
    WriteFile(fs, Append(Importer_get_folder_path(strptime_ymd(date_str)),
                         date_str \o "_summary.md"),
              [markdown |-> "Daily Summary", date |-> date_str])

\* the daily reports of the member days whose daily file exists
DailyReports(fs, week_folder_path, days) ==
    LET D[i \in 0..Len(days)] ==
            IF i = 0 THEN fs
            ELSE IF Exists(D[i - 1], Append(week_folder_path, days[i].date \o ".json"))
                 THEN Importer_save_daily_summary(D[i - 1], days[i].date)
                 ELSE D[i - 1]
    IN  D[Len(days)]

\* the charts go to the charts folder outside base_dir: not part of the store
Importer_save_week_summary(fs, week_folder_path, week_summary_data) ==
    Outcome("saved", NamedIn(week_folder_path, "_summary.md"),
            DailyReports(WriteFile(WriteFile(fs, NamedIn(week_folder_path, ".json"),
                                             Json(week_summary_data)),
                                   NamedIn(week_folder_path, "_summary.md"),
                                   [markdown |-> "Week Summary",
                                    week_dates |-> week_summary_data.week_dates]),
                         week_folder_path, week_summary_data.daily_summaries))

\* today.weekday() == 0
IsMonday(d) == weekday(d) = 0

\* the previous week summarised, given what generate_week_summary returned
PreviousWeekSaved(fs, week_folder_path, week_summary_data) ==
    IF week_summary_data.status = "data"
    THEN [Importer_save_week_summary(fs, week_folder_path, week_summary_data)
              EXCEPT !.status = "folder", !.value = week_folder_path]
    ELSE IF week_summary_data.status = None THEN Outcome(None, <<>>, fs)
    ELSE Outcome(week_summary_data.status, <<>>, fs)

\* the previous week, Monday to Sunday, summarised in the folder of its Monday
PreviousWeek(fs, last_monday) ==
    IF ~DirExists(fs, Importer_get_folder_path(last_monday)) THEN Outcome(None, <<>>, fs)
    ELSE PreviousWeekSaved(fs, Importer_get_folder_path(last_monday),
             Importer_generate_week_summary(fs, Importer_get_folder_path(last_monday),
                 [i \in 1..7 |-> AddDays(last_monday, i - 1)]))

\* last_sunday - timedelta(days=last_sunday.weekday())
MondayOf(last_sunday) == AddDays(last_sunday, 0 - weekday(last_sunday))

generate_previous_week_summary(fs, now) ==
    IF ~IsMonday(now) THEN Outcome(None, <<>>, fs)
    ELSE PreviousWeek(fs, MondayOf(AddDays(now, -1)))

\* today.day == 1
IsFirstOfMonth(d) == d.day = 1

\* the day files of the month found week folder by week folder; the week
\* folders are visited in sorted order here, iterdir() fixes none
MonthDayFiles(fs, week_folders, month_dates) ==
    LET n == Len(month_dates)
    IN  SelectSeq([k \in 1..(Len(week_folders) * n) |->
                      [date |-> month_dates[((k - 1) % n) + 1],
                       path |-> Append(week_folders[((k - 1) \div n) + 1],
                                       strftime_ymd(month_dates[((k - 1) % n) + 1])
                                           \o ".json")]],
                  LAMBDA x : Exists(fs, x.path))

\* the importer's month_summary_data dict
Importer_MonthSummaryData(first_day_prev_month, month_dates, daily_summaries) ==
    [month |-> ToString(first_day_prev_month.year) \o "-"
                   \o pad2(first_day_prev_month.month),
     month_dates |-> [i \in 1..Len(month_dates) |-> strftime_ymd(month_dates[i])],
     total_coding_time |-> SumOf(daily_summaries, "total_coding_time"),
     daily_avg_coding_time |->
         Average(SumOf(daily_summaries, "total_coding_time"), Len(daily_summaries)),
     daily_summaries |-> daily_summaries,
     metadata |-> [days_with_data |-> Len(daily_summaries),
                   total_days |-> Len(month_dates)]]

\* the month summary written as JSON and as a report
Importer_SaveMonth(fs, month_folder_path, month_summary_data) ==
    Outcome("folder", month_folder_path,
            WriteFile(WriteFile(fs, NamedIn(month_folder_path, "_summary.json"),
                                month_summary_data),
                      NamedIn(month_folder_path, "_summary.md"),
                      [markdown |-> "Month Summary",
                       month |-> month_summary_data.month]))

\* the previous month summarised from the day files found
PreviousMonthOf(fs, month_folder_path, first_day_prev_month, month_dates, found) ==
    IF FirstRaise(fs, found) # None THEN Outcome(FirstRaise(fs, found), <<>>, fs)
    ELSE IF Len(found) = 0 THEN Outcome(None, <<>>, fs)
    ELSE Importer_SaveMonth(fs, month_folder_path,
             Importer_MonthSummaryData(first_day_prev_month, month_dates,
                                       DailySummaries(fs, found)))

\* the previous month, given its folder and its dates
PreviousMonthIn(fs, month_folder_path, first_day_prev_month, month_dates) ==
    IF ~DirExists(fs, month_folder_path) THEN Outcome(None, <<>>, fs)
    ELSE PreviousMonthOf(fs, month_folder_path, first_day_prev_month, month_dates,
                         MonthDayFiles(fs, WeekFoldersIn(fs, month_folder_path),
                                       month_dates))

\* the previous month, given its last day
PreviousMonth(fs, last_day_prev_month) ==
    PreviousMonthIn(fs,
                    <<base_dir, ToString(last_day_prev_month.year),
                      Importer_get_month_folder_name(last_day_prev_month)>>,
                    [last_day_prev_month EXCEPT !.day = 1],
                    DatesFrom([last_day_prev_month EXCEPT !.day = 1], last_day_prev_month))

generate_previous_month_summary(fs, now) ==
    IF ~IsFirstOfMonth(now) THEN Outcome(None, <<>>, fs)
    ELSE PreviousMonth(fs, AddDays([now EXCEPT !.day = 1], -1))

-----------------------------------------------------------------------------
(* The runs *)

\* the clock readings of the runs: the Mondays after the last Sunday of a
\* month, after a Sunday whose week began in the month before, and after the
\* Sunday of a first full week; a Sunday; the Monday after the second-to-last
\* Sunday of a month that ends on a Sunday, and the 1st after that month
Clock ==
    { Date(2024, 12, 30), Date(2025, 1, 5), Date(2025, 1, 6), Date(2025, 1, 13),
      Date(2025, 8, 25), Date(2025, 9, 1) }

\* the clock does not go back, and a run at clock reading now is at most
\* MaxSpanDays after the run before it
InSpan(now) ==
    IF today = NoDate THEN TRUE
    ELSE /\ DaysBetween(now, today) >= 0
         /\ DaysBetween(now, today) <= MaxSpanDays

\* no generate_* call has returned yet
NoSummary == [status |-> "unset"]

\* no call is probed
NoInput == <<>>

\* the paths whose content differs between the stores fs and fs1
Changed(fs, fs1) ==
    { p \in DOMAIN fs1 : ~Exists(fs, p) \/ fs[p] # fs1[p] }

Init ==
    /\ today = NoDate
    /\ target_date = NoDate
    /\ op = "init"
    /\ result = None
    /\ month_rollup = FALSE
    /\ files = <<>>
    /\ changed = {}
    /\ steps = 0
    /\ week_num = 0
    /\ folders = NoFolders
    /\ week_dates = <<>>
    /\ summary = NoSummary
    /\ processed = {}
    /\ probe_input = NoInput

\* the state after a run at clock reading now that processed d and ended as o
Ran(name, now, d, o) ==
    /\ steps' = steps + 1
    /\ today' = now
    /\ target_date' = d
    /\ op' = name
    /\ result' = o.status
    /\ month_rollup' = o.month_rollup
    /\ files' = o.files
    /\ changed' = Changed(files, o.files)
    /\ UNCHANGED <<week_num, folders, week_dates, summary, processed, probe_input>>

\* python wakatime_fetcher.py: fetch_and_save_with_structure() for yesterday
FetchAndSave ==
    \E now \in Clock, r \in Responses, e \in EarlierResponses :
        /\ steps < MaxSteps
        /\ InSpan(now)
        /\ IF IsSunday(AddDays(now, -1)) THEN TRUE ELSE e = Ok200(3600)
        /\ Ran("fetch_and_save_with_structure", now, AddDays(now, -1),
               fetch_and_save_with_structure(Answers(AddDays(now, -1), r, e), files,
                                             AddDays(now, -1)))

\* WakaTimeImporter.generate_previous_week_summary()
PreviousWeekSummary ==
    \E now \in Clock :
        /\ steps < MaxSteps
        /\ InSpan(now)
        /\ Ran("generate_previous_week_summary", now, now,
               generate_previous_week_summary(files, now))

\* WakaTimeImporter.generate_previous_month_summary()
PreviousMonthSummary ==
    \E now \in Clock :
        /\ steps < MaxSteps
        /\ InSpan(now)
        /\ Ran("generate_previous_month_summary", now, now,
               generate_previous_month_summary(files, now))

Next == FetchAndSave \/ PreviousWeekSummary \/ PreviousMonthSummary

Spec == Init /\ [][Next]_vars

-----------------------------------------------------------------------------
(* Probing the calendar functions on every date of the probed years *)

InitCal ==
    /\ target_date \in CalDates
    /\ today = NoDate
    /\ op = "init"
    /\ result = None
    /\ month_rollup = FALSE
    /\ files = <<>>
    /\ changed = {}
    /\ steps = 0
    /\ week_num = 0
    /\ folders = NoFolders
    /\ week_dates = <<>>
    /\ summary = NoSummary
    /\ processed = {}
    /\ probe_input = NoInput

ProbeBucket ==
    /\ week_num = 0
    /\ week_num' = get_week_number(target_date)
    /\ folders' = [fetcher    |-> get_folder_path(target_date),
                   visualizer |-> Visualizer_get_folder_path(target_date),
                   summaries  |-> Summaries_get_folder_path(target_date),
                   importer   |-> Importer_get_folder_path(target_date)]
    /\ op' = "bucket"
    /\ UNCHANGED <<today, target_date, result, month_rollup, files, changed, steps,
                   week_dates, summary, processed, probe_input>>

ProbeWeekDates ==
    /\ week_dates = <<>>
    /\ week_dates' = get_week_dates(target_date)
    /\ op' = "week_dates"
    /\ UNCHANGED <<today, target_date, result, month_rollup, files, changed, steps,
                   week_num, folders, summary, processed, probe_input>>

NextCal == ProbeBucket \/ ProbeWeekDates

SpecCal == InitCal /\ [][NextCal]_vars

-----------------------------------------------------------------------------
(* Probing the rollup functions on the stores of one week and of one month *)

\* the Sunday of the probed window 2025-01-13 .. 2025-01-19, all in one bucket
AggSunday == Date(2025, 1, 19)

\* the answers the API can give for a day of the probed window
AggResponses == { ApiError, Ok200(1800), Ok200(3600), Ok200(7200) }

\* the API's answers for the probed window: the first MaxAggDays days can have
\* a record, the later ones have none
AggUpstreams ==
    { up \in [{ get_week_dates(AggSunday)[i] : i \in 1..7 } -> AggResponses] :
          \A i \in 1..7 : i > MaxAggDays => up[get_week_dates(AggSunday)[i]] = ApiError }

\* the Monday of the window kept in week folder n of January 2025
AggMonday(n) == AddDays(Date(2025, 1, 6), 7 * (n - 1))

\* the API's answers for a window whose first k days have s seconds each
AggAnswers(dates, s, k) ==
    [x \in { dates[i] : i \in 1..7 } |->
        IF \E i \in 1..k : dates[i] = x THEN Ok200(s) ELSE ApiError]

\* the week summary of the window that begins on monday, computed from the
\* records of its first k days
AggWeekSummary(monday, s, k) ==
    generate_week_summary(
        fetch_multiple_days(AggAnswers(get_week_dates(monday), s, k), <<>>,
                            monday, AddDays(monday, 6)).files,
        get_folder_path(monday), get_week_dates(monday))

\* a week summary that also carries the per-kind totals generate_month_summary reads
CompleteWeek(week_summary_data) ==
    Json(week_summary_data) @@
    [total_categories_time |-> 0, total_language_time |-> 0, total_project_time |-> 0,
     total_editor_time |-> 0, total_machine_time |-> 0, total_os_time |-> 0]

\* what week folder n of the probed month can hold: no summary (k = 0) or the
\* summary of k days of s seconds each
AggWeekChoices ==
    { [s |-> 0, k |-> 0] } \cup { [s |-> s, k |-> k] : s \in {3600, 7200}, k \in {1, 3} }

\* the store that holds the week summaries chosen by c
AggMonthStore(c) ==
    [p \in { NamedIn(get_folder_path(AggMonday(n)), ".json") :
                 n \in { m \in 1..MaxAggWeeks : c[m].k > 0 } } |->
        LET n == CHOOSE m \in 1..MaxAggWeeks :
                     NamedIn(get_folder_path(AggMonday(m)), ".json") = p
        IN  CompleteWeek(AggWeekSummary(AggMonday(n), c[n].s, c[n].k))]

\* the daily records of a window as the fetcher stored them, or the week
\* summaries of a month; nothing else in the store
InitAgg ==
    /\ \/ \E up \in AggUpstreams :
              files = fetch_multiple_days(up, <<>>, get_week_dates(AggSunday)[1],
                                          AggSunday).files
       \/ \E c \in [1..MaxAggWeeks -> AggWeekChoices] : files = AggMonthStore(c)
    /\ target_date = AggSunday
    /\ today = NoDate
    /\ op = "init"
    /\ result = None
    /\ month_rollup = FALSE
    /\ changed = {}
    /\ steps = 0
    /\ week_num = 0
    /\ folders = NoFolders
    /\ week_dates = <<>>
    /\ summary = NoSummary
    /\ processed = {}
    /\ probe_input = NoInput

\* generate_week_summary(week_folder_path, week_dates) on the probed window
ProbeWeekSummary ==
    /\ op = "init"
    /\ summary' = generate_week_summary(files, get_folder_path(target_date),
                                        get_week_dates(target_date))
    /\ op' = "generate_week_summary"
    /\ UNCHANGED <<today, target_date, result, month_rollup, files, changed, steps,
                   week_num, folders, week_dates, processed, probe_input>>

\* generate_month_summary(month_folder_path, month_dates) on the probed month
ProbeMonthSummary ==
    /\ op = "init"
    /\ summary' = generate_month_summary(files, SubSeq(get_folder_path(target_date), 1, 3),
                                         get_month_dates(target_date))
    /\ op' = "generate_month_summary"
    /\ UNCHANGED <<today, target_date, result, month_rollup, files, changed, steps,
                   week_num, folders, week_dates, processed, probe_input>>

NextAgg == ProbeWeekSummary \/ ProbeMonthSummary

SpecAgg == InitAgg /\ [][NextAgg]_vars

-----------------------------------------------------------------------------
(* Calling the orchestrator with a date: later dates, and dates again *)

\* the dates fetch_and_save_with_structure is called with: three Sundays, one
\* of them the Sunday of a week that began in the month before, one the last
\* of its month, and two days that are not Sundays
RerunDates ==
    { Date(2024, 12, 29), Date(2025, 1, 5), Date(2025, 1, 8), Date(2025, 1, 12),
      Date(2025, 1, 14) }

\* the API answers the same for a day whenever it is asked: the daily record
\* of a day never changes
SteadyAnswers(d) ==
    [x \in { get_week_dates(d)[i] : i \in 1..7 } |->
        IF x.day % 2 = 0 THEN Ok200(3600) ELSE Ok200(7200)]

InitRerun ==
    /\ today = NoDate
    /\ target_date = NoDate
    /\ op = "init"
    /\ result = None
    /\ month_rollup = FALSE
    /\ files = <<>>
    /\ changed = {}
    /\ steps = 0
    /\ week_num = 0
    /\ folders = NoFolders
    /\ week_dates = <<>>
    /\ summary = NoSummary
    /\ processed = {}
    /\ probe_input = NoInput

\* the state after fetch_and_save_with_structure(d) ended as o
RanOn(name, d, o) ==
    /\ steps' = steps + 1
    /\ target_date' = d
    /\ op' = name
    /\ result' = o.status
    /\ month_rollup' = o.month_rollup
    /\ files' = o.files
    /\ changed' = Changed(files, o.files)
    /\ processed' = processed \cup {d}
    /\ UNCHANGED <<today, week_num, folders, week_dates, summary, probe_input>>

\* fetch_and_save_with_structure(d) for a date later than every date processed
ProcessDate ==
    \E d \in RerunDates :
        /\ steps < MaxRuns
        /\ \A e \in processed : DateLT(e, d)
        /\ RanOn("process", d, fetch_and_save_with_structure(SteadyAnswers(d), files, d))

\* fetch_and_save_with_structure(d) for a date processed before
ProcessAgain ==
    \E d \in processed :
        /\ steps < MaxRuns
        /\ RanOn("process_again", d,
                 fetch_and_save_with_structure(SteadyAnswers(d), files, d))

NextRerun == ProcessDate \/ ProcessAgain

SpecRerun == InitRerun /\ [][NextRerun]_vars

-----------------------------------------------------------------------------
(* Calling the orchestrator with every date of one month, in ascending order *)

\* the months processed, each given by its first day
ProcessedMonths == { Date(MaxYear, m, 1) : m \in 1..12 }

InitMonth ==
    /\ today = NoDate
    /\ target_date = NoDate
    /\ op = "init"
    /\ result = None
    /\ month_rollup = FALSE
    /\ files = <<>>
    /\ changed = {}
    /\ steps = 0
    /\ week_num = 0
    /\ folders = NoFolders
    /\ week_dates = <<>>
    /\ summary = NoSummary
    /\ processed = {}
    /\ probe_input \in ProcessedMonths

\* the date after the last one processed, the 1st of the month at the start
NextDateOfMonth == IF target_date = NoDate THEN probe_input ELSE AddDays(target_date, 1)

\* fetch_and_save_with_structure(d) for the next date d of the month; the API
\* has data for every day
ProcessMonthDate ==
    /\ NextDateOfMonth.month = probe_input.month
    /\ RanOn("process_month_date", NextDateOfMonth,
             fetch_and_save_with_structure(SteadyAnswers(NextDateOfMonth), files,
                                           NextDateOfMonth))

NextMonth == ProcessMonthDate

SpecMonth == InitMonth /\ [][NextMonth]_vars

-----------------------------------------------------------------------------
(* create_summaries.py: the reports made for the data in the store *)

\* the state of main's loops: the store, the report files written so far and
\* the exception raised, if any
Rendering(fs, written, raised) == [files |-> fs, written |-> written, raised |-> raised]

\* open(p, "w") ... f.write(md_content)
WriteReport(st, p, v) ==
    [st EXCEPT !.files = WriteFile(@, p, v), !.written = @ \cup {p}]

create_daily_summary(st, date_str, day_data) ==
    IF ExtractRaises(day_data) # None
    THEN [st EXCEPT !.raised = ExtractRaises(day_data)]
    ELSE WriteReport(st,
                     Append(Summaries_get_folder_path(strptime_ymd(date_str)),
                            date_str \o "_summary.md"),
                     [markdown |-> "Daily Summary", date |-> date_str])

\* the loop over the week's daily_summaries, from the i-th on
RECURSIVE DailySummaryReports(_, _, _, _)
DailySummaryReports(st, week_dir, daily_summaries, i) ==
    IF i > Len(daily_summaries) THEN st
    ELSE IF st.raised # None THEN st
    ELSE IF ~Exists(st.files, Append(week_dir, daily_summaries[i].date \o ".json"))
         THEN DailySummaryReports(st, week_dir, daily_summaries, i + 1)
    ELSE DailySummaryReports(create_daily_summary(
                          st, daily_summaries[i].date,
                          st.files[Append(week_dir, daily_summaries[i].date \o ".json")]),
                      week_dir, daily_summaries, i + 1)

\* the fields create_weekly_summary formats into the report
WeeklySummaryFields ==
    { "week_dates", "total_coding_time", "daily_avg_coding_time", "metadata" }

create_weekly_summary(st, week_folder_path, week_summary_data) ==
    IF ~HasKeys(week_summary_data, WeeklySummaryFields)
    THEN [st EXCEPT !.raised = "KeyError"]
    ELSE WriteReport(st, NamedIn(week_folder_path, "_summary.md"),
                     [markdown |-> "Week Summary",
                      week_dates |-> week_summary_data.week_dates])

create_monthly_summary(st, month_folder_path, month_summary_data) ==
    WriteReport(st, NamedIn(month_folder_path, "_summary.md"),
                [markdown |-> "Monthly Summary",
                 month |-> Get(month_summary_data, "month_name", "Unknown Month")])

\* the week's report and the reports of its days, after the week passed the
\* checks of the loop
WeekAndDays(st, week_dir, week_summary_data) ==
    DailySummaryReports(create_weekly_summary(st, week_dir, week_summary_data), week_dir,
                 Get(week_summary_data, "daily_summaries", <<>>), 1)

\* one turn of the loop over the week folders of a month folder
WeekDirReports(st, week_dir, now) ==
    IF st.raised # None THEN st
    ELSE IF ~Exists(st.files, NamedIn(week_dir, ".json")) THEN st
    ELSE IF Len(Get(st.files[NamedIn(week_dir, ".json")], "week_dates", <<>>)) < 7 THEN st
    ELSE IF ~DateLT(strptime_ymd(Last(st.files[NamedIn(week_dir, ".json")].week_dates)),
                    now)
         THEN st
    ELSE WeekAndDays(st, week_dir, st.files[NamedIn(week_dir, ".json")])

\* the loop over the week folders of month_dir, in the order iterdir gives
\* them, from the i-th on
RECURSIVE WeekDirsReports(_, _, _, _, _)
WeekDirsReports(st, month_dir, week_order, i, now) ==
    IF i > Len(week_order) THEN st
    ELSE IF SubSeq(week_order[i], 1, 3) = month_dir
         THEN WeekDirsReports(WeekDirReports(st, week_order[i], now), month_dir,
                              week_order, i + 1, now)
    ELSE WeekDirsReports(st, month_dir, week_order, i + 1, now)

\* int(month_dir.name.split("_")[0])
month_num(month_dir) ==
    CHOOSE m \in 1..12 : pad2(m) \o "_" \o month_name[m] = month_dir[3]

\* int(year_dir.name)
year_num(month_dir) == CHOOSE y \in 2024..MaxYear : ToString(y) = month_dir[2]

\* the month folder is of the current month or of a later one
NotEnded(month_dir, now) ==
    IF year_num(month_dir) > now.year THEN TRUE
    ELSE year_num(month_dir) = now.year /\ month_num(month_dir) >= now.month

\* one turn of the loop over the month folders
MonthDirReports(st, month_dir, week_order, now) ==
    IF st.raised # None THEN st
    ELSE IF NotEnded(month_dir, now) THEN st
    ELSE WeekDirsReports(IF Exists(st.files, NamedIn(month_dir, ".json"))
                         THEN create_monthly_summary(
                                  st, month_dir, st.files[NamedIn(month_dir, ".json")])
                         ELSE st,
                         month_dir, week_order, 1, now)

\* the loops over the year and month folders, in the order iterdir gives
\* them, from the i-th month folder on
RECURSIVE MonthDirsReports(_, _, _, _, _)
MonthDirsReports(st, month_order, week_order, i, now) ==
    IF i > Len(month_order) THEN st
    ELSE MonthDirsReports(MonthDirReports(st, month_order[i], week_order, now),
                          month_order, week_order, i + 1, now)

\* main() of create_summaries.py, run at the date now; the images of the
\* charts go to the charts folder, outside the store
main(fs, now, month_order, week_order) ==
    IF DOMAIN fs = {} THEN Rendering(fs, {}, "not_found")
    ELSE MonthDirsReports(Rendering(fs, {}, None), month_order, week_order, 1, now)

\* the month folders and the week folders of the store
MonthDirs(fs) == { SubSeq(q, 1, 3) : q \in { p \in DOMAIN fs : Len(p) >= 4 } }

WeekDirs(fs) == { SubSeq(q, 1, 4) : q \in { p \in DOMAIN fs : Len(p) = 5 } }

\* the orders iterdir can give the folders in
Orders(dirs) ==
    { o \in [1..Cardinality(dirs) -> dirs] : { o[i] : i \in 1..Cardinality(dirs) } = dirs }

\* the Sundays the fetcher was run for before the reports are made
SummarySundays == { Date(2024, 12, 29), Date(2025, 1, 12), Date(2025, 1, 19) }

\* the dates the reports are made on: 2025-01-19 and the days after it
SummaryClock == { AddDays(Date(2025, 1, 19), k) : k \in 0..(MaxClockDays - 1) }

\* the earliest of the dates
Earliest(dates) == CHOOSE d \in dates : \A e \in dates : ~DateLT(e, d)

\* the store after fetch_and_save_with_structure ran for the Sundays, in
\* ascending order
RECURSIVE StoreAfter(_, _)
StoreAfter(fs, sundays) ==
    IF sundays = {} THEN fs
    ELSE StoreAfter(fetch_and_save_with_structure(SteadyAnswers(Earliest(sundays)), fs,
                                                  Earliest(sundays)).files,
                    sundays \ {Earliest(sundays)})

\* the store after 2025-01-08 was fetched again and the API had no data for it
RefetchedEmpty(fs) ==
    fetch_and_save_with_structure(
        Answers(Date(2025, 1, 8), Empty200, Empty200), fs, Date(2025, 1, 8)).files

InitSummaries ==
    /\ today \in SummaryClock
    /\ target_date = NoDate
    /\ op = "init"
    /\ result = None
    /\ month_rollup = FALSE
    /\ probe_input \in [sundays : SUBSET { d \in SummarySundays : ~DateLT(today, d) },
                        refetched : BOOLEAN]
    /\ files = IF probe_input.refetched
               THEN RefetchedEmpty(StoreAfter(<<>>, probe_input.sundays))
               ELSE StoreAfter(<<>>, probe_input.sundays)
    /\ changed = {}
    /\ steps = 0
    /\ week_num = 0
    /\ folders = NoFolders
    /\ week_dates = <<>>
    /\ summary = NoSummary
    /\ processed = {}

\* the state after main() ended as st
Reported(st) ==
    /\ op' = "create_summaries"
    /\ result' = IF st.raised = None THEN "completed" ELSE st.raised
    /\ files' = st.files
    /\ changed' = Changed(files, st.files)
    /\ summary' = [status |-> "reports", written |-> st.written]
    /\ UNCHANGED <<today, target_date, month_rollup, steps, week_num, folders,
                   week_dates, processed, probe_input>>

\* python create_summaries.py
CreateSummaries ==
    /\ op = "init"
    /\ \E month_order \in Orders(MonthDirs(files)), week_order \in Orders(WeekDirs(files)) :
           Reported(main(files, today, month_order, week_order))

NextSummaries == CreateSummaries

SpecSummaries == InitSummaries /\ [][NextSummaries]_vars

-----------------------------------------------------------------------------
(* Fetching one day: what the fetcher and the importer make of the answer *)

\* the days the API is asked for: MaxFetchDays days from 2024-12-23
FetchDates == { AddDays(Date(2024, 12, 23), k) : k \in 0..(MaxFetchDays - 1) }

\* WakaTimeImporter.fetch_daily_data
Importer_fetch_daily_data(up, d) ==
    LET response == Request(up, d)
    IN  IF response.status_code # 200 THEN [status |-> None]
        ELSE IF Len(response.data) = 0 THEN [status |-> None]
        ELSE [status |-> "data",
              wakatime_data |-> [data |-> response.data],
              metadata |-> [version |-> "1.0",
                            date_fetched |-> strftime_ymd(d),
                            script_name |-> "WakaTimeImporter"]]

\* WakaTimeImporter.save_daily_data
Importer_save_daily_data(fs, d, data) ==
    WriteFile(fs, Append(Importer_get_folder_path(d), strftime_ymd(d) \o ".json"),
              Json(data))

\* one turn of the loop of import_last_n_days: the day is saved and counted as
\* imported, or reported as having no data
ImportedDay(fs, daily_data, d) ==
    IF daily_data.status = None THEN Outcome(None, <<>>, fs)
    ELSE Outcome("file", Append(Importer_get_folder_path(d), strftime_ymd(d) \o ".json"),
                 Importer_save_daily_data(fs, d, daily_data))

\* an empty store, a day, and the API's answer for that day
InitFetch ==
    /\ target_date \in FetchDates
    /\ probe_input \in Responses
    /\ today = NoDate
    /\ op = "init"
    /\ result = None
    /\ month_rollup = FALSE
    /\ files = <<>>
    /\ changed = {}
    /\ steps = 0
    /\ week_num = 0
    /\ folders = NoFolders
    /\ week_dates = <<>>
    /\ summary = NoSummary
    /\ processed = {}

\* the state after the probed call ended as o
Probed(name, o) ==
    /\ op' = name
    /\ result' = o.status
    /\ month_rollup' = o.month_rollup
    /\ files' = o.files
    /\ changed' = Changed(files, o.files)
    /\ UNCHANGED <<today, target_date, steps, week_num, folders, week_dates, summary,
                   processed, probe_input>>

\* the fetcher processes the day; the API has no answer for the other days
FetcherFetch ==
    /\ op = "init"
    /\ Probed("fetch_and_save_with_structure",
              fetch_and_save_with_structure(Answers(target_date, probe_input, ApiError),
                                            files, target_date))

\* the importer processes the day in its import loop
ImporterFetch ==
    /\ op = "init"
    /\ Probed("import_last_n_days",
              ImportedDay(files,
                          Importer_fetch_daily_data(Answers(target_date, probe_input,
                                                            ApiError), target_date),
                          target_date))

NextFetch == FetcherFetch \/ ImporterFetch

SpecFetch == InitFetch /\ [][NextFetch]_vars

-----------------------------------------------------------------------------
(* wakatime_charts.py and format_breakdown: the breakdowns by name *)

\* the names and the seconds of the items of a day
ItemNames == { "X", "Y" }

ItemSeconds == { 0, 3600 }

\* the items the API can list for one kind on one day, at most MaxItems of them
RECURSIVE ItemListsOf(_)
ItemListsOf(n) ==
    IF n = 0 THEN { <<>> }
    ELSE ItemListsOf(n - 1) \cup
         { Append(l, [name |-> nm, total_seconds |-> sec]) :
               l \in { k \in ItemListsOf(n - 1) : Len(k) = n - 1 },
               nm \in ItemNames, sec \in ItemSeconds }

\* the daily file of the day whose "languages" are items
ItemsDay(items) ==
    [wakatime_data |->
        [data |-> << [grand_total |-> [total_seconds |-> SumOf(items, "total_seconds")],
                      languages |-> items] >>]]

\* the week summary of the probed window whose first days have the given items
ItemsWeek(days) ==
    WeekSummaryData(get_week_dates(AggSunday),
                    [i \in 1..Len(days) |->
                        ExtractDaily(get_week_dates(AggSunday)[i], ItemsDay(days[i]))])

\* the month summary generate_month_summary makes of that week summary
ItemsMonth(days) ==
    MonthSummaryData(SubSeq(get_folder_path(AggSunday), 1, 3), get_month_dates(AggSunday),
                     << ExtractWeekly(Last(get_folder_path(AggSunday)),
                                      CompleteWeek(ItemsWeek(days))) >>)

\* aggregated[name] += seconds, or aggregated[name] = seconds for a new name;
\* the dict keeps the names in the order they were first seen
AddItem(aggregated, item) ==
    IF \E k \in 1..Len(aggregated) : aggregated[k].name = item.name
    THEN [k \in 1..Len(aggregated) |->
             IF aggregated[k].name = item.name
             THEN [aggregated[k] EXCEPT !.total_seconds = @ + Get(item, "total_seconds", 0)]
             ELSE aggregated[k]]
    ELSE Append(aggregated, [name |-> item.name,
                             total_seconds |-> Get(item, "total_seconds", 0)])

\* the loop over the items of one day
RECURSIVE AddItems(_, _)
AddItems(aggregated, items) ==
    IF Len(items) = 0 THEN aggregated
    ELSE AddItems(AddItem(aggregated, Head(items)), Tail(items))

\* the loop over days, each with its items of item_type
RECURSIVE AddDaysItems(_, _, _)
AddDaysItems(aggregated, days, item_type) ==
    IF Len(days) = 0 THEN aggregated
    ELSE AddDaysItems(AddItems(aggregated, Get(Head(days), item_type, <<>>)),
                      Tail(days), item_type)

\* the loop over weeks, each with its daily_summaries
RECURSIVE AddWeeksItems(_, _, _)
AddWeeksItems(aggregated, weeks, item_type) ==
    IF Len(weeks) = 0 THEN aggregated
    ELSE AddWeeksItems(AddDaysItems(aggregated, Get(Head(weeks), "daily_summaries", <<>>),
                                    item_type),
                       Tail(weeks), item_type)

\* WakaTimeCharts._aggregate_items that keeps the names whose seconds sum to 0
aggregate_items_KeepsZero(summary_data, item_type) ==
    AddWeeksItems(AddDaysItems(<<>>, Get(summary_data, "daily_summaries", <<>>), item_type),
                  Get(summary_data, "weekly_summaries", <<>>), item_type)

\* WakaTimeCharts._aggregate_items
aggregate_items(summary_data, item_type) ==
    SelectSeq(AddWeeksItems(AddDaysItems(<<>>, Get(summary_data, "daily_summaries", <<>>),
                                         item_type),
                            Get(summary_data, "weekly_summaries", <<>>), item_type),
              LAMBDA x : x.total_seconds > 0)

\* x put into a list sorted by total_seconds descending, after the items that
\* are not smaller: sorted(..., reverse=True) keeps equal items in input order
RECURSIVE InsertDescending(_, _)
InsertDescending(sorted_items, x) ==
    IF Len(sorted_items) = 0 THEN << x >>
    ELSE IF Get(Head(sorted_items), "total_seconds", 0) >= Get(x, "total_seconds", 0)
         THEN << Head(sorted_items) >> \o InsertDescending(Tail(sorted_items), x)
         ELSE << x >> \o sorted_items

\* sorted(items, key=lambda x: x.get("total_seconds", 0), reverse=True)
RECURSIVE SortedDescending(_)
SortedDescending(items) ==
    IF Len(items) = 0 THEN <<>>
    ELSE InsertDescending(SortedDescending(SubSeq(items, 1, Len(items) - 1)),
                          items[Len(items)])

\* the items the pie chart shows: the top max_items - 1 and "Others" for the rest
MainItems(sorted_items) ==
    IF Len(sorted_items) > max_items
    THEN IF SumOf(SubSeq(sorted_items, max_items, Len(sorted_items)), "total_seconds") > 0
         THEN Append(SubSeq(sorted_items, 1, max_items - 1),
                     [name |-> "Others",
                      total_seconds |-> SumOf(SubSeq(sorted_items, max_items,
                                                     Len(sorted_items)),
                                              "total_seconds")])
         ELSE SubSeq(sorted_items, 1, max_items - 1)
    ELSE sorted_items

\* the percentages taken over one hundredth too much
PieOf_PerMille(shown) ==
    IF SumOf(shown, "total_seconds") = 0 THEN [status |-> None]
    ELSE [status |-> "chart",
          labels |-> [i \in 1..Len(shown) |-> shown[i].name],
          sizes |-> [i \in 1..Len(shown) |-> shown[i].total_seconds],
          percentages |-> [i \in 1..Len(shown) |->
                              TrueDiv(shown[i].total_seconds * 1000,
                                      SumOf(shown, "total_seconds"))]]

\* labels, sizes and percentages = size / total * 100 of the items shown
PieOf(shown) ==
    IF SumOf(shown, "total_seconds") = 0 THEN [status |-> None]
    ELSE [status |-> "chart",
          labels |-> [i \in 1..Len(shown) |-> shown[i].name],
          sizes |-> [i \in 1..Len(shown) |-> shown[i].total_seconds],
          percentages |-> [i \in 1..Len(shown) |->
                              TrueDiv(shown[i].total_seconds * 100,
                                      SumOf(shown, "total_seconds"))]]

\* WakaTimeCharts.create_pie_chart, up to the drawing
create_pie_chart(items) ==
    IF Len(items) = 0 THEN [status |-> None]
    ELSE PieOf(MainItems(SortedDescending(items)))

\* format_breakdown: the lines of the items, in the order they are printed
format_breakdown(items) ==
    IF Len(items) = 0 THEN <<>>
    ELSE [i \in 1..Len(items) |->
             [name |-> SortedDescending(items)[i].name,
              total_seconds |-> Get(SortedDescending(items)[i], "total_seconds", 0)]]

\* the items of the first two days of the probed window
InitItems ==
    /\ probe_input \in [1..2 -> ItemListsOf(MaxItems)]
    /\ target_date = AggSunday
    /\ today = NoDate
    /\ op = "init"
    /\ result = None
    /\ month_rollup = FALSE
    /\ files = <<>>
    /\ changed = {}
    /\ steps = 0
    /\ week_num = 0
    /\ folders = NoFolders
    /\ week_dates = <<>>
    /\ summary = NoSummary
    /\ processed = {}

\* the breakdown of a summary: what _aggregate_items returns and the pie chart of it
BreakdownOf(items) ==
    [status |-> "breakdown", items |-> items, chart |-> create_pie_chart(items)]

\* the languages pie chart of create_weekly_summary_charts
WeeklyBreakdown ==
    /\ op = "init"
    /\ summary' = BreakdownOf(aggregate_items(ItemsWeek(probe_input), "languages"))
    /\ op' = "create_weekly_summary_charts"
    /\ UNCHANGED <<today, target_date, result, month_rollup, files, changed, steps,
                   week_num, folders, week_dates, processed, probe_input>>

\* the languages pie chart of create_monthly_summary_charts
MonthlyBreakdown ==
    /\ op = "init"
    /\ summary' = BreakdownOf(aggregate_items(ItemsMonth(probe_input), "languages"))
    /\ op' = "create_monthly_summary_charts"
    /\ UNCHANGED <<today, target_date, result, month_rollup, files, changed, steps,
                   week_num, folders, week_dates, processed, probe_input>>

\* format_breakdown of the items of the first day, as the daily report prints them
FormatBreakdown ==
    /\ op = "init"
    /\ summary' = [status |-> "lines", lines |-> format_breakdown(probe_input[1])]
    /\ op' = "format_breakdown"
    /\ UNCHANGED <<today, target_date, result, month_rollup, files, changed, steps,
                   week_num, folders, week_dates, processed, probe_input>>

NextItems == WeeklyBreakdown \/ MonthlyBreakdown \/ FormatBreakdown

SpecItems == InitItems /\ [][NextItems]_vars

-----------------------------------------------------------------------------
(* Calendar facts stated independently of the code's arithmetic *)

\* the first Monday on or after the 1st of d's month: the one Monday among
\* the first seven days
FirstMondayOf(d) ==
    CHOOSE m \in { Date(d.year, d.month, k) : k \in 1..7 } : weekday(m) = 0

\* the dates of d's month
MonthOf(d) == { Date(d.year, d.month, k) : k \in 1..DaysInMonth(d.year, d.month) }

C2_FirstMondayIsWeekTwo ==
    week_num # 0 =>
        LET fm == FirstMondayOf(target_date)
        IN  fm.day # 1 =>
              /\ (target_date.day < fm.day => week_num = 1)
              /\ (fm.day <= target_date.day /\ target_date.day <= fm.day + 6
                    => week_num = 2)

\* C3: when the month does not start on a Monday, week_1 holds exactly the
\* dates before the first Monday, which are fewer than 7.
C3_StubWeekIsWeekOne ==
    week_num # 0 =>
        LET fm == FirstMondayOf(target_date)
            week_1 == { e \in MonthOf(target_date) : get_week_number(e) = 1 }
        IN  fm.day # 1 =>
              /\ (week_num = 1 <=> target_date.day < fm.day)
              /\ Cardinality(week_1) < 7

\* C4: the bucket is defined for every date and its week number is in 1..5.
C4_WeekNumberRange ==
    week_num # 0 =>
        /\ week_num \in 1..5
        /\ folders.fetcher[4] \in { "week_" \o ToString(n) : n \in 1..5 }
        /\ Len(folders.fetcher) = 4

\* a date numbered 5 has been bucketed
C4_Witness ==
    /\ week_num = 5
    /\ folders # NoFolders
    /\ folders.fetcher[4] = "week_5"

\* C5: the visualizer, create_summaries and the importer compute the same
\* bucket path as the fetcher for every date.
C5_SameBucketEverywhere ==
    folders # NoFolders =>
        /\ folders.visualizer = folders.fetcher
        /\ folders.summaries = folders.fetcher
        /\ folders.importer = folders.fetcher

\* the four components have bucketed a date past the first week
C5_Witness ==
    /\ folders # NoFolders
    /\ folders.fetcher = <<"wakatime_logs", "2025", "08_August", "week_4">>
    /\ folders.visualizer = <<"wakatime_logs", "2025", "08_August", "week_4">>

\* C6: get_week_dates(d) is 7 consecutive dates in ascending order, from a
\* Monday to a Sunday, containing d.
C6_WeekDatesWindow ==
    week_dates # <<>> =>
        /\ Len(week_dates) = 7
        /\ \A i \in 1..6 : toordinal(week_dates[i + 1]) = toordinal(week_dates[i]) + 1
        /\ weekday(week_dates[1]) = 0
        /\ weekday(week_dates[7]) = 6
        /\ \E i \in 1..7 : week_dates[i] = target_date

\* the window of a mid-week date that spans two months has been computed
C6_Witness ==
    /\ week_dates # <<>>
    /\ target_date = Date(2025, 1, 1)
    /\ week_dates[1] = Date(2024, 12, 30)
    /\ week_dates[7] = Date(2025, 1, 5)

-----------------------------------------------------------------------------
(* What the runs leave in the store *)

\* d is a Sunday and no later Sunday falls within d's month
IsLastSundayInMonth(d) ==
    weekday(d) = 6 /\ d.day + 7 > DaysInMonth(d.year, d.month)

\* p is the key of a week summary: <week folder>/<week folder name>.json
IsWeekSummaryPath(p) == Len(p) = 5 /\ p[5] = p[4] \o ".json"

\* p is the key of a month summary: <month folder>/<month folder name>.json
\* (fetcher) or <month folder name>_summary.json (importer)
IsMonthSummaryPath(p) ==
    Len(p) = 4 /\ p[4] \in { p[3] \o ".json", p[3] \o "_summary.json" }

\* the dates within a week of d
Near(d) == { AddDays(d, k) : k \in -7..7 }

\* the months of the probed years, each given by its first day
MonthKeys == { Date(y, m, 1) : y \in 2024..MaxYear, m \in 1..12 }

\* the month folder of the month that begins on m
MonthFolderOf(m) == <<base_dir, ToString(m.year), get_month_folder_name(m)>>

\* the last calendar day of the month that begins on m
LastDayOf(m) == Date(m.year, m.month, DaysInMonth(m.year, m.month))

\* C7: after a run of fetch_and_save_with_structure that stored the record of
\* the processed date d, the month rollup was triggered if and only if d is a
\* Sunday and no later Sunday falls within d's calendar month.
C7_MonthRollupOnLastSunday ==
    (op = "fetch_and_save_with_structure" /\ Exists(files, daily_file(target_date))) =>
        (month_rollup <=> IsLastSundayInMonth(target_date))

\* C8: a week summary is written only when the processed date is at or after
\* the Sunday of its window, and fetch_and_save_with_structure on a date that
\* is not a Sunday changes at most that day's record: no week summary and no
\* month summary changes.
C8_WeekSummaryOnlyFromItsSunday ==
    /\ \A p \in changed :
           IsWeekSummaryPath(p) =>
               /\ \E s \in Near(target_date) : strftime_ymd(s) = Last(files[p].week_dates)
               /\ \A s \in Near(target_date) :
                      strftime_ymd(s) = Last(files[p].week_dates) => DateLE(s, target_date)
    /\ (op = "fetch_and_save_with_structure" /\ ~IsSunday(target_date)) =>
           changed \subseteq { daily_file(target_date) }

\* the fetcher processed Sunday 2025-01-05 and wrote the summary of the week
\* 2024-12-30 .. 2025-01-05
C8_Witness ==
    /\ op = "fetch_and_save_with_structure"
    /\ target_date = Date(2025, 1, 5)
    /\ <<"wakatime_logs", "2025", "01_January", "week_1", "week_1.json">> \in changed
    /\ Last(files[<<"wakatime_logs", "2025", "01_January", "week_1", "week_1.json">>].week_dates)
           = "2025-01-05"

C10_WindowRecordsAreMembers ==
    ( /\ op = "fetch_and_save_with_structure"
      /\ IsSunday(target_date)
      /\ NamedIn(get_folder_path(target_date), ".json") \in changed ) =>
        \A i \in 1..7 :
            Exists(files, daily_file(get_week_dates(target_date)[i])) =>
                \E k \in DOMAIN files[NamedIn(get_folder_path(target_date), ".json")].daily_summaries :
                    files[NamedIn(get_folder_path(target_date), ".json")].daily_summaries[k].date
                        = strftime_ymd(get_week_dates(target_date)[i])

-----------------------------------------------------------------------------
(* What the rollup functions compute *)

\* the dates of the probed window that have a daily record in the store
Recorded == { i \in 1..7 : Exists(files, daily_file(get_week_dates(target_date)[i])) }

\* the total_seconds of the daily record of day i of the probed window, -1 if
\* the day has no record
RecordedSeconds(i) ==
    IF i \in Recorded
    THEN files[daily_file(get_week_dates(target_date)[i])]
             .wakatime_data.data[1].grand_total.total_seconds
    ELSE -1

\* the store holds Monday 3600, Tuesday 7200, Thursday 1800 and nothing else
\* of the window
MonTueThu ==
    /\ Recorded = {1, 2, 4}
    /\ RecordedSeconds(1) = 3600
    /\ RecordedSeconds(2) = 7200
    /\ RecordedSeconds(4) = 1800

RECURSIVE MemberTotal(_)
MemberTotal(members) ==
    IF members = <<>> THEN 0
    ELSE Head(members).total_coding_time + MemberTotal(Tail(members))

\* C12: the total_coding_time of a week summary is the sum of the
\* total_coding_time of its daily_summaries, and the total_coding_time of a
\* month summary is the sum of the total_coding_time of its weekly_summaries.
C12_TotalIsSumOfMembers ==
    /\ (op = "generate_week_summary" /\ summary.status = "data") =>
           summary.total_coding_time = MemberTotal(summary.daily_summaries)
    /\ (op = "generate_month_summary" /\ summary.status = "data") =>
           summary.total_coding_time = MemberTotal(summary.weekly_summaries)

\* a month summary of three weeks whose totals are not all the same
C12_Witness ==
    /\ op = "generate_month_summary"
    /\ summary.status = "data"
    /\ Len(summary.weekly_summaries) = 3
    /\ summary.weekly_summaries[1].total_coding_time = 3600
    /\ summary.weekly_summaries[2].total_coding_time = 21600
    /\ summary.total_coding_time = 3600 + 21600 + summary.weekly_summaries[3].total_coding_time

\* avg is total divided by n, and 0 when n is 0
IsQuotient(avg, total, n) ==
    IF n = 0 THEN avg.num = 0
    ELSE avg.den > 0 /\ avg.num * n = total * avg.den

\* C13: every average of a rollup is its total divided by its member count
\* and 0 when the count is 0: a week's daily average is total /
\* days_with_data, a month's weekly average is total / total_weeks and its
\* daily average is total / total_days_with_data.
C13_AverageIsTotalOverCount ==
    /\ (op = "generate_week_summary" /\ summary.status = "data") =>
           IsQuotient(summary.daily_avg_coding_time, summary.total_coding_time,
                      summary.metadata.days_with_data)
    /\ (op = "generate_month_summary" /\ summary.status = "data") =>
           /\ IsQuotient(summary.weekly_avg_coding_time, summary.total_coding_time,
                         summary.metadata.total_weeks)
           /\ IsQuotient(summary.daily_avg_coding_time, summary.total_coding_time,
                         summary.metadata.total_days_with_data)

\* a month summary of two weeks with four days of data between them
C13_Witness ==
    /\ op = "generate_month_summary"
    /\ summary.status = "data"
    /\ summary.metadata.total_weeks = 2
    /\ summary.metadata.total_days_with_data = 4
    /\ summary.total_coding_time = 25200
    /\ summary.weekly_avg_coding_time = [num |-> 12600, den |-> 1]
    /\ summary.daily_avg_coding_time = [num |-> 6300, den |-> 1]

-----------------------------------------------------------------------------
(* What the runs do when a rollup has nothing to work on, or fails *)

\* the days (0 = Monday) of the window beginning on monday that have a daily
\* record under folder
WindowRecordsIn(folder, monday) ==
    { i \in 0..6 : Exists(files, Append(folder, strftime_ymd(AddDays(monday, i)) \o ".json")) }

\* the dates of the month before today's that have a daily record
PreviousMonthRecords ==
    { d \in MonthOf(AddDays([today EXCEPT !.day = 1], -1)) : Exists(files, daily_file(d)) }

WeekSummariesUnder(month_folder) ==
    { q \in DOMAIN files : IsWeekSummaryPath(q) /\ SubSeq(q, 1, 3) = month_folder }

\* C16: a month summary a run writes is made of the week summaries persisted
\* under the week buckets of its month, one member per persisted week summary,
\* and of nothing read from daily records: it has no day members.
C16_MonthRollupFromWeekSummariesOnly ==
    \A p \in changed :
        IsMonthSummaryPath(p) =>
            /\ "daily_summaries" \notin DOMAIN files[p]
            /\ Len(Get(files[p], "weekly_summaries", <<>>))
                   = Cardinality(WeekSummariesUnder(SubSeq(p, 1, 3)))

-----------------------------------------------------------------------------
(* Running again *)

\* the run that takes the step repeats the run before it: same operation,
\* same clock reading, same date
SameRunAgain ==
    /\ steps' = steps + 1
    /\ op' = op
    /\ today' = today
    /\ target_date' = target_date

\* the run that takes the step changes no daily record
DailyRecordsKept ==
    \A d \in Near(target_date') : daily_file(d) \notin changed'

\* C17: a run that repeats the run before it on a store with the same daily
\* records leaves every week summary and every month summary with the
\* content it had (the values of the store carry no generated_at).
C17_SameDateTwiceSameSummaries ==
    [][ (SameRunAgain /\ DailyRecordsKept) =>
            \A p \in changed' : ~IsWeekSummaryPath(p) /\ ~IsMonthSummaryPath(p) ]_vars

\* the fetcher processed Sunday 2025-01-05 a second time, wrote the week
\* summary again and changed nothing in the store
C17_Witness ==
    /\ steps = 2
    /\ op = "fetch_and_save_with_structure"
    /\ today = Date(2025, 1, 6)
    /\ result = "KeyError"
    /\ Exists(files, NamedIn(get_folder_path(Date(2025, 1, 5)), ".json"))
    /\ changed = {}

\* C18: a run of the orchestrator for a date processed before, the latest
\* processed date or an earlier one, with the daily records unchanged, leaves
\* every week summary and every month summary with the content it had.
C18_RerunKeepsSummaries ==
    op = "process_again" =>
        \A p \in changed : ~IsWeekSummaryPath(p) /\ ~IsMonthSummaryPath(p)

\* the days of the window beginning on monday whose daily record under folder
\* has a first "data" entry with a "grand_total"
WellFormedIn(folder, monday) ==
    { i \in WindowRecordsIn(folder, monday) :
          /\ Len(files[Append(folder, strftime_ymd(AddDays(monday, i)) \o ".json")]
                     .wakatime_data.data) > 0
          /\ "grand_total" \in
                 DOMAIN files[Append(folder, strftime_ymd(AddDays(monday, i)) \o ".json")]
                            .wakatime_data.data[1] }

\* C19: when the fetcher processes a Sunday whose window holds a malformed
\* daily record next to well-formed ones, the run is not aborted: the week
\* summary is written, with the days of the well-formed records as members.
C19_MalformedDayIsSkipped ==
    ( /\ op = "fetch_and_save_with_structure"
      /\ weekday(target_date) = 6
      /\ WellFormedIn(get_folder_path(target_date), AddDays(target_date, -6)) # {}
      /\ WellFormedIn(get_folder_path(target_date), AddDays(target_date, -6))
             # WindowRecordsIn(get_folder_path(target_date), AddDays(target_date, -6)) ) =>
        /\ result # "IndexError"
        /\ Exists(files, NamedIn(get_folder_path(target_date), ".json"))
        /\ Len(files[NamedIn(get_folder_path(target_date), ".json")].daily_summaries)
               = Cardinality(WellFormedIn(get_folder_path(target_date),
                                          AddDays(target_date, -6)))

\* C20: when rendering the week's report fails after the fetcher processed a
\* Sunday, the week summary record is in the store with all its member days
\* and, when the Sunday is the last of its month, the run still went on to
\* the month rollup.
C20_RenderFailureKeepsRollups ==
    ( /\ op = "fetch_and_save_with_structure"
      /\ weekday(target_date) = 6
      /\ result = "KeyError" ) =>
        /\ Exists(files, NamedIn(get_folder_path(target_date), ".json"))
        /\ Len(files[NamedIn(get_folder_path(target_date), ".json")].daily_summaries)
               = Cardinality(WindowRecordsIn(get_folder_path(target_date),
                                             AddDays(target_date, -6)))
        /\ IsLastSundayInMonth(target_date) => month_rollup

-----------------------------------------------------------------------------
(* Fetching, bucketing and keeping the daily records *)

\* C21: processing a date whose request failed ends without a result and
\* without a change to the store, and processing a date for which the API
\* answered 200 with no data never ends that way: the two are told apart.
C21_FailureIsNotNoData ==
    /\ (op # "init" /\ probe_input.status_code # 200) =>
           (result = None /\ changed = {})
    /\ (op # "init" /\ probe_input = Empty200) =>
           ~(result = None /\ changed = {})

\* C22: a week summary a run writes for a window that begins in one month and
\* ends in the next is written in the bucket of the window's Monday: the key
\* lies in the week folder computed from the Monday, in the Monday's month.
C22_SpanningWeekInMondaysMonth ==
    \A p \in changed :
        IsWeekSummaryPath(p) =>
            \A m \in Near(target_date) :
                ( /\ strftime_ymd(m) = files[p].week_dates[1]
                  /\ m.month # AddDays(m, 6).month ) =>
                    SubSeq(p, 1, 4) = get_folder_path(m)

\* C23: a daily record in the store keeps its content in every later run,
\* whatever date that run processes.
C23_DailyRecordsAreNeverRewritten ==
    [][ \A p \in DOMAIN files :
            "wakatime_data" \in DOMAIN files[p] => (Exists(files', p) /\ files'[p] = files[p])
      ]_vars

-----------------------------------------------------------------------------
(* The breakdowns by name *)

\* the seconds of the items of the list that carry the name
RECURSIVE SecondsOf(_, _)
SecondsOf(items, nm) ==
    IF items = <<>> THEN 0
    ELSE (IF Head(items).name = nm THEN Head(items).total_seconds ELSE 0)
             + SecondsOf(Tail(items), nm)

\* the seconds of the name over the two probed days
NameTotal(nm) == SecondsOf(probe_input[1], nm) + SecondsOf(probe_input[2], nm)

\* the names that occur in an item of the two probed days
NamesOccurring ==
    { probe_input[d][k].name : d \in {1}, k \in 1..Len(probe_input[1]) } \cup
    { probe_input[d][k].name : d \in {2}, k \in 1..Len(probe_input[2]) }

\* the entries have one entry per name of the set, each with the name's total
EntriesAre(entries, names) ==
    /\ { entries[i].name : i \in 1..Len(entries) } = names
    /\ Len(entries) = Cardinality(names)
    /\ \A i \in 1..Len(entries) : entries[i].total_seconds = NameTotal(entries[i].name)

\* the pie chart shows each entry with 100 * its seconds / the seconds of all
PercentagesOf(chart, entries) ==
    IF Len(entries) = 0 THEN chart.status = None
    ELSE /\ chart.status = "chart"
         /\ { chart.labels[i] : i \in 1..Len(chart.labels) }
                = { entries[i].name : i \in 1..Len(entries) }
         /\ \A i \in 1..Len(chart.labels) :
                /\ chart.sizes[i] = NameTotal(chart.labels[i])
                /\ chart.percentages[i].num
                       * (NameTotal("X") + NameTotal("Y"))
                       = 100 * NameTotal(chart.labels[i]) * chart.percentages[i].den

\* the first day has X for 3600 seconds, the second X and Y for 3600 each
DaysXAndXY ==
    /\ probe_input[1] = << [name |-> "X", total_seconds |-> 3600] >>
    /\ probe_input[2] = << [name |-> "X", total_seconds |-> 3600],
                           [name |-> "Y", total_seconds |-> 3600] >>

\* C24: the weekly breakdown of a kind has exactly one entry per name whose
\* seconds over the member days sum to more than 0, with that sum as its
\* total_seconds, and the pie chart gives it 100 * its total / the total of
\* all names (up to max_items names); a name whose seconds sum to 0 has no
\* entry.  Days {X: 3600} and {X: 3600, Y: 3600} give X 7200 seconds and
\* 7200/10800 of the total.
C24_WeeklyBreakdownOfPositiveNames ==
    op = "create_weekly_summary_charts" =>
        /\ EntriesAre(summary.items, { nm \in NamesOccurring : NameTotal(nm) > 0 })
        /\ PercentagesOf(summary.chart, summary.items)
        /\ DaysXAndXY =>
               \E i \in 1..Len(summary.chart.labels) :
                   /\ summary.chart.labels[i] = "X"
                   /\ summary.chart.sizes[i] = 7200
                   /\ summary.chart.percentages[i] = [num |-> 200, den |-> 3]

\* the weekly breakdown of days {X: 3600} and {X: 3600, Y: 3600}
C24_Witness ==
    /\ op = "create_weekly_summary_charts"
    /\ DaysXAndXY
    /\ Len(summary.items) = 2
    /\ summary.chart.status = "chart"

\* C24 as stated: the weekly breakdown has exactly one entry per distinct name
\* occurring in the member days, with the name's summed seconds.
C24_WeeklyBreakdownOfEveryName ==
    op = "create_weekly_summary_charts" => EntriesAre(summary.items, NamesOccurring)

NameRank(nm) == IF nm = "X" THEN 1 ELSE 2

\* C26: the items are printed by total_seconds descending and, among items of
\* equal total_seconds, by name ascending, whatever the order of the input.
C26_TiesPrintedByNameAscending ==
    op = "format_breakdown" =>
        \A i, j \in 1..Len(summary.lines) :
            i < j =>
                \/ summary.lines[i].total_seconds > summary.lines[j].total_seconds
                \/ /\ summary.lines[i].total_seconds = summary.lines[j].total_seconds
                   /\ NameRank(summary.lines[i].name) <= NameRank(summary.lines[j].name)

-----------------------------------------------------------------------------
(* The week summaries the program writes, and what reads them *)

\* C27: every field save_week_summary and generate_month_summary read from a
\* week summary is in the week summaries the fetcher writes, so that the
\* processing of a Sunday whose window has a daily record ends without a
\* missing-field error.
C27_WrittenWeekSummaryHasFieldsRead ==
    op = "fetch_and_save_with_structure" =>
        /\ \A p \in changed :
               IsWeekSummaryPath(p) =>
                   (WeekReportFields \cup WeekFieldsReadByMonth) \subseteq DOMAIN files[p]
        /\ ( /\ weekday(target_date) = 6
             /\ WindowRecordsIn(get_folder_path(target_date), AddDays(target_date, -6)) # {} )
               => result # "KeyError"

\* C28: two different Monday-to-Sunday windows never write their week
\* summaries to the same store key: whatever Sundays are processed, the week
\* summary stored under a key stays the summary of the window it was written for.
C28_WeekSummaryKeyKeepsItsWindow ==
    [][\A p \in DOMAIN files :
           IsWeekSummaryPath(p) =>
               /\ Exists(files', p)
               /\ files'[p].week_dates = files[p].week_dates]_vars

\* the total_seconds of the daily records of the first n days of the processed month
RECURSIVE MonthRecordsTotal(_)
MonthRecordsTotal(n) ==
    IF n = 0 THEN 0
    ELSE MonthRecordsTotal(n - 1)
         + (IF Exists(files, daily_file([probe_input EXCEPT !.day = n]))
            THEN files[daily_file([probe_input EXCEPT !.day = n])]
                     .wakatime_data.data[1].grand_total.total_seconds
            ELSE 0)

\* the dates of the processed month that have a daily record
MonthRecords == { d \in MonthOf(probe_input) : Exists(files, daily_file(d)) }

\* the key of the month summary of the processed month
MonthSummaryKey == NamedIn(SubSeq(get_folder_path(probe_input), 1, 3), ".json")

\* every date of the processed month has been processed and has a daily record
WholeMonthProcessed ==
    /\ op = "process_month_date"
    /\ processed = MonthOf(probe_input)
    /\ MonthRecords = MonthOf(probe_input)

\* C29: once every date of a month has been processed in ascending order and
\* has its daily record, the store holds the month's summary, whose
\* total_coding_time is the sum of the totals of the daily records dated
\* within the month and whose total_days_with_data is their number.
C29_MonthSummaryIsSumOfMonthsRecords ==
    WholeMonthProcessed =>
        /\ Exists(files, MonthSummaryKey)
        /\ files[MonthSummaryKey].total_coding_time
               = MonthRecordsTotal(Cardinality(MonthOf(probe_input)))
        /\ files[MonthSummaryKey].metadata.total_days_with_data
               = Cardinality(MonthRecords)

-----------------------------------------------------------------------------
(* The reports create_summaries.py makes *)

\* the week folders of the store whose week summary lists seven dates
SevenDateWeeks ==
    { w \in WeekDirs(files) :
        /\ Exists(files, NamedIn(w, ".json"))
        /\ Len(Get(files[NamedIn(w, ".json")], "week_dates", <<>>)) = 7 }

\* the last date of the week summary of the week folder
WeekEnd(w) == strptime_ymd(files[NamedIn(w, ".json")].week_dates[7])

\* C30: a completed run of create_summaries.main writes the weekly report of
\* every persisted week summary of seven dates whose last date is before
\* today, whatever the month of its bucket, the current month included, and
\* of no week whose last date is today or later.
C30_EveryEndedWeekIsReported ==
    (op = "create_summaries" /\ result = "completed") =>
        \A w \in SevenDateWeeks :
            DateLT(WeekEnd(w), today) <=> NamedIn(w, "_summary.md") \in summary.written

====
